---- MODULE Spec2Model ----
(***************************************************************************)
(* Binding discovery of the mysql-tools plugin.                            *)
(*                                                                         *)
(* Two implementations of FindBindings are modelled:                       *)
(*   - plugin.bindingFinder.FindBindings (mysql-tools/plugin/plugin.go),   *)
(*     the discovery entry point of the plugin package;                    *)
(*   - find_bindings.BindingFinder.FindBindings, the finder exercised by   *)
(*     mysql-tools/find-bindings/finder_test.go through a fake CF client.  *)
(* Both run against the same catalog, the data a CF client serves.         *)
(***************************************************************************)
EXTENDS Integers, Sequences, FiniteSets, TLC

\* Largest catalog, counted in plans + instances + bindings + keys.
MaxSize == 7
\* Number of FindBindings invocations made on one finder.
MaxRuns == 2
\* Longest argument list given to Migrate.
MaxArgs == 3

(***************************************************************************)
(* The catalog served by the CF client.  A catalog is the list of service  *)
(* classes matching the label and the list of plans of that class; a plan  *)
(* is the list of its instances; an instance has nb bindings and nk keys.  *)
(* Entities are named after their position in these lists.                 *)
(***************************************************************************)
ServiceLabel == "p.mysql"

ServiceGuid == <<"service-guid">>

PlanGuid(p) == <<"plan-guid", p>>

InstanceName(p, i) == <<"instance", p, i>>

InstanceGuid(p, i) == <<"instance-guid", p, i>>

InstanceSpaceGuid(p, i) == <<"space-guid", p, i>>

AppGuid(p, i, b) == <<"app-guid", p, i, b>>

AppName(p, i, b) == <<"app", p, i, b>>

KeyName(p, i, k) == <<"key", p, i, k>>

SpaceName(p, i) == <<"space", p, i>>

OrgGuid(p, i) == <<"org-guid", p, i>>

OrgName(p, i) == <<"org", p, i>>

InstanceSize(inst) == 1 + inst.nb + inst.nk

InstancesWithin(n) ==
    {inst \in [nb : 0..n, nk : 0..n] : InstanceSize(inst) <= n}

RECURSIVE InstanceLists(_)
InstanceLists(n) ==
    {<<>>} \cup
    UNION {{<<inst>> \o rest : rest \in InstanceLists(n - InstanceSize(inst))} :
           inst \in InstancesWithin(n)}

RECURSIVE PlanSize(_)
PlanSize(plan) ==
    IF plan = <<>> THEN 1 ELSE InstanceSize(Head(plan)) + PlanSize(Tail(plan))

RECURSIVE PlanLists(_)
PlanLists(n) ==
    {<<>>} \cup
    UNION {{<<plan>> \o rest : rest \in PlanLists(n - PlanSize(plan))} :
           plan \in IF n >= 1 THEN InstanceLists(n - 1) ELSE {}}

Catalogs ==
    {[services |-> <<>>, plans |-> <<>>]} \cup
    {[services |-> <<ServiceGuid>>, plans |-> pl] : pl \in PlanLists(MaxSize)}

VARIABLES
    catalog,        \* the data the CF client serves; fixed during a behaviour
    pluginCalls,    \* calls recorded by the plugin finder's CFClient
    pluginReturns,  \* values returned by plugin FindBindings, one per invocation
    finder,         \* the finder's traversal: position, fetched lists, cache, result
    finderCalls,    \* calls recorded by the finder's fake CF client
    mig,            \* one run of Migrate: arguments, position, pending and returned error
    migratorCalls,  \* invocations of the Migrator interface, with what each returned
    clientCalls,    \* calls the Migrator made on its client and its unpacker
    cfServices      \* the service instances of the space, by name

pluginVars == <<pluginCalls, pluginReturns>>

finderVars == <<finder, finderCalls>>

migrateVars == <<mig, migratorCalls, clientCalls, cfServices>>

vars == <<catalog, pluginVars, finderVars, migrateVars>>

Nil == <<>>

(***************************************************************************)
(* plugin.go: bindingFinder.FindBindings                                   *)
(***************************************************************************)
\* A query that filters on the service's name instead of its label.
LabelQueryByName(serviceLabel) == [q |-> << <<"name", serviceLabel>> >>]

\* u.Set("q", fmt.Sprintf("label:%s", serviceLabel)): one key, one value,
\* the value one <field>:<value> predicate.
LabelQuery(serviceLabel) == [q |-> << <<"label", serviceLabel>> >>]

\* The slice literal FindBindings returns.
PlaceholderBindings ==
    << [App |-> <<"app">>, Key |-> Nil,
        Org |-> <<"org-name">>, Space |-> <<"space-name">>] >>

\* A finder that kept its result slice between invocations.
FindBindingsResultKept ==
    [bindings |-> (IF pluginReturns = <<>> THEN <<>>
                   ELSE pluginReturns[Len(pluginReturns)].bindings)
                  \o PlaceholderBindings,
     err |-> Nil]

\* return []ServiceBinding{...}, nil
FindBindingsResult == [bindings |-> PlaceholderBindings, err |-> Nil]

\* One invocation: the service list call is issued, its result and its error
\* are discarded (services, _ :=), and the literal is returned.
PluginFindBindings(serviceLabel, failed) ==
    /\ Len(pluginReturns) < MaxRuns
    /\ pluginCalls' = Append(pluginCalls,
                             [run |-> Len(pluginReturns) + 1,
                              op |-> "ListServicesByQuery",
                              arg |-> LabelQuery(serviceLabel),
                              failed |-> failed])
    /\ pluginReturns' = Append(pluginReturns, FindBindingsResult)
    /\ UNCHANGED <<catalog, finderVars, migrateVars>>

(***************************************************************************)
(* The fake CF client of finder_test.go: every operation answers from the  *)
(* catalog, by the identifier it is given.                                 *)
(***************************************************************************)
ListServices(cat) == [s \in 1..Len(cat.services) |-> [Guid |-> cat.services[s]]]

ListServicePlans(cat, serviceGuid) ==
    IF serviceGuid \in {cat.services[s] : s \in 1..Len(cat.services)}
    THEN [p \in 1..Len(cat.plans) |-> [Guid |-> PlanGuid(p)]]
    ELSE <<>>

ListServiceInstances(cat, planGuid) ==
    LET p == planGuid[2] IN
    [i \in 1..Len(cat.plans[p]) |->
        [Name |-> InstanceName(p, i), Guid |-> InstanceGuid(p, i),
         SpaceGuid |-> InstanceSpaceGuid(p, i)]]

ListServiceBindings(cat, instanceGuid) ==
    LET p == instanceGuid[2]
        i == instanceGuid[3] IN
    [b \in 1..cat.plans[p][i].nb |-> [AppGuid |-> AppGuid(p, i, b)]]

ListServiceKeys(cat, instanceGuid) ==
    LET p == instanceGuid[2]
        i == instanceGuid[3] IN
    [k \in 1..cat.plans[p][i].nk |-> [Name |-> KeyName(p, i, k)]]

GetAppByGuid(appGuid) == [Name |-> AppName(appGuid[2], appGuid[3], appGuid[4])]

GetSpaceByGuid(spaceGuid) ==
    [Name |-> SpaceName(spaceGuid[2], spaceGuid[3]),
     OrganizationGuid |-> OrgGuid(spaceGuid[2], spaceGuid[3])]

GetOrgByGuid(orgGuid) == [Name |-> OrgName(orgGuid[2], orgGuid[3])]

(***************************************************************************)
(* find_bindings.BindingFinder.FindBindings: the traversal (4.1) and the   *)
(* correlation (4.2), one step per catalog call.                           *)
(***************************************************************************)
\* A filtered-list query: one equality predicate on one field.
Query(field, value) == [q |-> << <<field, value>> >>]

\* A recorded call; at is the instance being processed when it is issued.
Call(op, arg, at, failed) == [op |-> op, arg |-> arg, at |-> at, failed |-> failed]

EmptyCache == Nil

NewFinder ==
    [pc |-> "ListServicesByQuery", p |-> 1, i |-> 1, b |-> 1,
     services |-> <<>>, plans |-> <<>>, instances |-> <<>>,
     bindings |-> <<>>, keys |-> <<>>,
     app |-> Nil, space |-> Nil, cache |-> EmptyCache,
     out |-> <<>>, err |-> Nil]

\* Fail-fast: the error names the level and the parent, no partial output.
Failed(f, level, parent) ==
    [f EXCEPT !.pc = "done", !.out = <<>>,
              !.err = [level |-> level, parent |-> parent]]

Binding(name, instance, cache, type) ==
    [name |-> name,
     serviceInstanceName |-> instance.Name,
     serviceInstanceGuid |-> instance.Guid,
     orgName |-> IF cache = EmptyCache THEN Nil ELSE cache.orgName,
     spaceName |-> IF cache = EmptyCache THEN Nil ELSE cache.spaceName,
     type |-> type]

KeyBindings(f) ==
    [k \in 1..Len(f.keys) |->
        Binding(f.keys[k].Name, f.instances[f.i], f.cache, "ServiceKeyBinding")]

\* The plan loop: the next plan's instances are listed, or the result returned.
AfterPlan(f) ==
    IF f.p < Len(f.plans)
    THEN [f EXCEPT !.p = f.p + 1, !.pc = "ListServiceInstancesByQuery"]
    ELSE [f EXCEPT !.pc = "done"]

\* A plan loop that returns at the first plan without instances.
AfterInstancesShortCircuit(f) ==
    IF f.instances = <<>>
    THEN [f EXCEPT !.pc = "done"]
    ELSE [f EXCEPT !.i = 1, !.pc = "ListServiceBindingsByQuery"]

\* A plan's instances have been listed: the first one is entered; a plan
\* without instances contributes nothing and the loop goes on.
AfterInstances(f) ==
    IF f.instances = <<>>
    THEN AfterPlan(f)
    ELSE [f EXCEPT !.i = 1, !.pc = "ListServiceBindingsByQuery"]

\* An instance loop that steps over every second instance.
AfterInstanceSkipping(f) ==
    IF f.i + 1 < Len(f.instances)
    THEN [f EXCEPT !.i = f.i + 2, !.pc = "ListServiceBindingsByQuery"]
    ELSE AfterPlan(f)

\* The instance loop.
AfterInstance(f) ==
    IF f.i < Len(f.instances)
    THEN [f EXCEPT !.i = f.i + 1, !.pc = "ListServiceBindingsByQuery"]
    ELSE AfterPlan(f)

\* 4.2 step 3: after the bindings, the keys are emitted with the cached names.
EmitKeys(f) == AfterInstance([f EXCEPT !.out = f.out \o KeyBindings(f)])

\* 4.2 step 4: keys without bindings. The cache was never populated; the
\* records are left out, emitted without org and space, or the call fails.
KeyOnlyPolicies == {"omit-records", "omit-fields", "fail"}

EmitKeysUnbound(f, policy) ==
    CASE policy = "omit-records" -> AfterInstance(f)
      [] policy = "omit-fields" -> EmitKeys(f)
      [] policy = "fail" -> Failed(f, "ResolveKeys", f.instances[f.i].Guid)

\* 4.2 step 2: the AppBinding record of the current binding is emitted, then
\* the next binding is resolved, or the keys follow.
EmitApp(f) ==
    LET g == [f EXCEPT !.out = Append(f.out,
                  Binding(f.app.Name, f.instances[f.i], f.cache, "AppBinding"))]
    IN IF g.b < Len(g.bindings)
       THEN [g EXCEPT !.b = g.b + 1, !.pc = "GetAppByGuid"]
       ELSE EmitKeys(g)

\* A correlator that resolves space and org for every binding.
CacheNeverHit(cache) == TRUE

CacheIsEmpty(cache) == cache = EmptyCache

FinderListServices(failed) ==
    /\ finder.pc = "ListServicesByQuery"
    /\ finderCalls' = Append(finderCalls,
           Call("ListServicesByQuery", Query("label", ServiceLabel), Nil, failed))
    /\ finder' =
         IF failed THEN Failed(finder, "ListServicesByQuery", ServiceLabel)
         ELSE LET services == ListServices(catalog) IN
              IF services = <<>>
              THEN [finder EXCEPT !.pc = "done"]
              ELSE [finder EXCEPT !.services = services,
                                  !.pc = "ListServicePlansByQuery"]
    /\ UNCHANGED <<catalog, pluginVars, migrateVars>>

FinderListPlans(failed) ==
    /\ finder.pc = "ListServicePlansByQuery"
    /\ LET guid == finder.services[1].Guid IN
       /\ finderCalls' = Append(finderCalls,
              Call("ListServicePlansByQuery", Query("service_guid", guid), Nil, failed))
       /\ finder' =
            IF failed THEN Failed(finder, "ListServicePlansByQuery", guid)
            ELSE LET plans == ListServicePlans(catalog, guid) IN
                 IF plans = <<>>
                 THEN [finder EXCEPT !.pc = "done"]
                 ELSE [finder EXCEPT !.plans = plans, !.p = 1,
                                     !.pc = "ListServiceInstancesByQuery"]
    /\ UNCHANGED <<catalog, pluginVars, migrateVars>>

FinderListInstances(failed) ==
    /\ finder.pc = "ListServiceInstancesByQuery"
    /\ LET guid == finder.plans[finder.p].Guid IN
       /\ finderCalls' = Append(finderCalls,
              Call("ListServiceInstancesByQuery",
                   Query("service_plan_guid", guid), Nil, failed))
       /\ finder' =
            IF failed THEN Failed(finder, "ListServiceInstancesByQuery", guid)
            ELSE AfterInstances(
                   [finder EXCEPT !.instances = ListServiceInstances(catalog, guid)])
    /\ UNCHANGED <<catalog, pluginVars, migrateVars>>

FinderListBindings(failed) ==
    /\ finder.pc = "ListServiceBindingsByQuery"
    /\ LET guid == finder.instances[finder.i].Guid IN
       /\ finderCalls' = Append(finderCalls,
              Call("ListServiceBindingsByQuery",
                   Query("service_instance_guid", guid), guid, failed))
       /\ finder' =
            IF failed THEN Failed(finder, "ListServiceBindingsByQuery", guid)
            ELSE [finder EXCEPT !.bindings = ListServiceBindings(catalog, guid),
                                !.b = 1, !.cache = EmptyCache,
                                !.pc = "ListServiceKeysByQuery"]
    /\ UNCHANGED <<catalog, pluginVars, migrateVars>>

FinderListKeys(failed, policy) ==
    /\ finder.pc = "ListServiceKeysByQuery"
    /\ LET guid == finder.instances[finder.i].Guid IN
       /\ finderCalls' = Append(finderCalls,
              Call("ListServiceKeysByQuery",
                   Query("service_instance_guid", guid), guid, failed))
       /\ finder' =
            IF failed THEN Failed(finder, "ListServiceKeysByQuery", guid)
            ELSE LET f == [finder EXCEPT !.keys = ListServiceKeys(catalog, guid)] IN
                 IF f.bindings # <<>> THEN [f EXCEPT !.pc = "GetAppByGuid"]
                 ELSE IF f.keys = <<>> THEN AfterInstance(f)
                 ELSE EmitKeysUnbound(f, policy)
    /\ UNCHANGED <<catalog, pluginVars, migrateVars>>

FinderGetApp(failed) ==
    /\ finder.pc = "GetAppByGuid"
    /\ LET guid == finder.bindings[finder.b].AppGuid IN
       /\ finderCalls' = Append(finderCalls,
              Call("GetAppByGuid", guid, finder.instances[finder.i].Guid, failed))
       /\ finder' =
            IF failed THEN Failed(finder, "GetAppByGuid", guid)
            ELSE LET f == [finder EXCEPT !.app = GetAppByGuid(guid)] IN
                 IF CacheIsEmpty(f.cache)
                 THEN [f EXCEPT !.pc = "GetSpaceByGuid"]
                 ELSE EmitApp(f)
    /\ UNCHANGED <<catalog, pluginVars, migrateVars>>

\* A space lookup by the space of the plan's first instance.
SpaceLookupGuidOfFirst(f) == f.instances[1].SpaceGuid

\* The space looked up is the one the instance names (finder_test.go:222-223).
SpaceLookupGuid(f) == f.instances[f.i].SpaceGuid

FinderGetSpace(failed) ==
    /\ finder.pc = "GetSpaceByGuid"
    /\ LET guid == SpaceLookupGuid(finder) IN
       /\ finderCalls' = Append(finderCalls,
              Call("GetSpaceByGuid", guid, finder.instances[finder.i].Guid, failed))
       /\ finder' =
            IF failed THEN Failed(finder, "GetSpaceByGuid", guid)
            ELSE [finder EXCEPT !.space = GetSpaceByGuid(guid),
                                !.pc = "GetOrgByGuid"]
    /\ UNCHANGED <<catalog, pluginVars, migrateVars>>

FinderGetOrg(failed) ==
    /\ finder.pc = "GetOrgByGuid"
    /\ LET guid == finder.space.OrganizationGuid IN
       /\ finderCalls' = Append(finderCalls,
              Call("GetOrgByGuid", guid, finder.instances[finder.i].Guid, failed))
       /\ finder' =
            IF failed THEN Failed(finder, "GetOrgByGuid", guid)
            ELSE EmitApp([finder EXCEPT !.cache =
                     [orgName |-> GetOrgByGuid(guid).Name,
                      spaceName |-> finder.space.Name]])
    /\ UNCHANGED <<catalog, pluginVars, migrateVars>>

(***************************************************************************)
(* plugin.go: Migrate, and the Migrator it drives (package migrate).       *)
(* One step per call on the client or the unpacker; what Migrate and the   *)
(* Migrator do between two calls belongs to the step of the earlier call.  *)
(***************************************************************************)
\* Words of a command line: the flag, an unknown flag, two names.
ArgWords == {"--no-cleanup", "--bogus", "db", "small"}

ArgLists == UNION {[1..n -> ArgWords] : n \in 0..MaxArgs}

IsFlag(w) == w \in {"--no-cleanup", "--bogus"}

Positionals(args) == SelectSeq(args, LAMBDA w : ~IsFlag(w))

\* parser.ParseArgs: an unknown flag or a missing positional is an error;
\* positionals beyond the two declared ones are handed back.
ParseError(args) ==
    \/ \E k \in 1..Len(args) : args[k] = "--bogus"
    \/ Len(Positionals(args)) < 2

Leftover(args) == SubSeq(Positionals(args), 3, Len(Positionals(args)))

NoCleanup(args) == \E k \in 1..Len(args) : args[k] = "--no-cleanup"

\* tempRecipientInstanceName := donorInstanceName + "-new"
RecipientName(donor) == donor \o <<"-new">>

\* newDonorInstanceName := donorInstanceName + "-old"
OldDonorName(donor) == donor \o <<"-old">>

\* m.appName = "migrate-app-" + uuid.New()
MigrateAppName == <<"migrate-app-", "uuid">>

NewMigrate(args) ==
    [pc |-> "ParseArgs", args |-> args,
     donor |-> Nil, recipient |-> Nil, plan |-> Nil, cleanup |-> FALSE,
     err |-> Nil, pending |-> Nil, ret |-> Nil]

\* A Migrator method is entered / returns.
Invoke(log, op, args) ==
    Append(log, [op |-> op, args |-> args, returned |-> FALSE, err |-> Nil])

Return(log, err) ==
    [log EXCEPT ![Len(log)] = [@ EXCEPT !.returned = TRUE, !.err = err]]

ClientCall(op, args, failed) == [op |-> op, args |-> args, failed |-> failed]

\* The client's view of the space.
ServiceExists(services, name) == \E s \in services : s.name = name

CreateService(services, name) == services \cup {[name |-> name, inst |-> "new"]}

DeleteService(services, name) == {s \in services : s.name # name}

RenameService(services, oldName, newName) ==
    {IF s.name = oldName THEN [s EXCEPT !.name = newName] ELSE s : s \in services}

\* Migrate returns.
Returned(m, err) == [m EXCEPT !.pc = "done", !.ret = err, !.err = Nil, !.pending = Nil]

\* A Migrate that cleans up whatever --no-cleanup says.
OnCreateErrorAlwaysCleanup(m, err) ==
    [m EXCEPT !.pc = "CleanupOnError", !.err = Nil,
              !.pending = <<"error creating service instance", err,
                            "Attempting to clean up service", m.recipient>>]

\* Migrate, after CreateAndConfigureServiceInstance returned err.
OnCreateError(m, err) ==
    IF m.cleanup
    THEN [m EXCEPT !.pc = "CleanupOnError", !.err = Nil,
                   !.pending = <<"error creating service instance", err,
                                 "Attempting to clean up service", m.recipient>>]
    ELSE Returned(m, <<"error creating service instance", err,
                       "Not cleaning up service", m.recipient>>)

\* Migrate, after CreateAndConfigureServiceInstance returned nil.
OnCreateOk(m) == [m EXCEPT !.pc = "TempDir", !.err = Nil]

\* A Migrate that goes on to the rename after a failed data migration.
OnMigrateDataErrorIgnored(m, err) == [m EXCEPT !.pc = "RenameDonor", !.err = Nil]

\* Migrate, after MigrateData returned err.
OnMigrateDataError(m, err) ==
    IF m.cleanup
    THEN [m EXCEPT !.pc = "CleanupOnError", !.err = Nil,
                   !.pending = <<"error migrating data", err,
                                 "Attempting to clean up service", m.recipient>>]
    ELSE Returned(m, <<"error migrating data", err,
                       "Not cleaning up service", m.recipient>>)

\* Migrate, after MigrateData returned nil.
OnMigrateDataOk(m) == [m EXCEPT !.pc = "RenameDonor", !.err = Nil]

\* A Migrate that returns what CleanupOnError returned.
AfterCleanupReturnsItsResult(m, cleanupErr) == Returned(m, cleanupErr)

\* Migrate, after CleanupOnError returned: its result is not looked at.
AfterCleanup(m, cleanupErr) == Returned(m, m.pending)

\* A MigrateData that binds the recipient before the donor.
MigrateDataNextRecipientFirst(step) ==
    CASE step = "TempDir" -> "Unpack"
      [] step = "Unpack" -> "PushApp"
      [] step = "PushApp" -> "BindRecipient"
      [] step = "BindRecipient" -> "BindDonor"
      [] step = "BindDonor" -> "StartApp"
      [] step = "StartApp" -> "RunTask"
      [] step = "RunTask" -> "DeleteApp"

\* MigrateData: the call that follows a successful one.
MigrateDataNext(step) ==
    CASE step = "TempDir" -> "Unpack"
      [] step = "Unpack" -> "PushApp"
      [] step = "PushApp" -> "BindDonor"
      [] step = "BindDonor" -> "BindRecipient"
      [] step = "BindRecipient" -> "StartApp"
      [] step = "StartApp" -> "RunTask"
      [] step = "RunTask" -> "DeleteApp"

\* A MigrateData that returns at once from every failed call but RunTask,
\* leaving the pushed app behind.
MigrateDataFailedLeavesApp(step) ==
    CASE step = "RunTask" -> "DumpLogs"
      [] OTHER -> "return"

\* MigrateData: a failed call. Before the app is pushed MigrateData returns
\* at once; afterwards the deferred DeleteApp runs first, and a failed task
\* has its logs dumped before that.
MigrateDataFailed(step) ==
    CASE step \in {"TempDir", "Unpack", "PushApp"} -> "return"
      [] step \in {"BindDonor", "BindRecipient", "StartApp"} -> "DeleteApp"
      [] step = "RunTask" -> "DumpLogs"

\* A RenameServiceInstances that renames the recipient whatever happened to
\* the donor's rename.
AfterRenameDonorIgnoresError(m, failed) == [m EXCEPT !.pc = "RenameRecipient"]

\* RenameServiceInstances, after the donor's rename.
AfterRenameDonor(m, failed) ==
    IF failed
    THEN Returned(m, <<"Error renaming service instance", m.donor>>)
    ELSE [m EXCEPT !.pc = "RenameRecipient"]

MigParseArgs ==
    /\ mig.pc = "ParseArgs"
    /\ mig' =
         IF ParseError(mig.args) \/ Leftover(mig.args) # <<>>
         THEN Returned(mig, <<"Usage">>)
         ELSE [mig EXCEPT !.pc = "ServiceExists",
                          !.donor = <<Positionals(mig.args)[1]>>,
                          !.recipient = RecipientName(<<Positionals(mig.args)[1]>>),
                          !.plan = <<Positionals(mig.args)[2]>>,
                          !.cleanup = ~NoCleanup(mig.args)]
    /\ UNCHANGED <<catalog, pluginVars, finderVars, migratorCalls, clientCalls,
                   cfServices>>

MigCheckServiceExists ==
    /\ mig.pc = "ServiceExists"
    /\ LET exists == ServiceExists(cfServices, mig.donor)
           err == IF exists THEN Nil ELSE <<"Service instance not found", mig.donor>>
       IN
       /\ clientCalls' = Append(clientCalls,
                                ClientCall("ServiceExists", <<mig.donor>>, FALSE))
       /\ migratorCalls' = Return(Invoke(migratorCalls, "CheckServiceExists",
                                         <<mig.donor>>), err)
       /\ mig' = IF exists THEN [mig EXCEPT !.pc = "CreateServiceInstance"]
                 ELSE Returned(mig, err)
    /\ UNCHANGED <<catalog, pluginVars, finderVars, cfServices>>

MigCreateServiceInstance(failed) ==
    /\ mig.pc = "CreateServiceInstance"
    /\ clientCalls' = Append(clientCalls,
           ClientCall("CreateServiceInstance", <<mig.plan, mig.recipient>>, failed))
    /\ LET entered == Invoke(migratorCalls, "CreateAndConfigureServiceInstance",
                             <<mig.plan, mig.recipient>>)
           err == <<"Error creating service instance">>
       IN IF failed
          THEN /\ migratorCalls' = Return(entered, err)
               /\ mig' = OnCreateError(mig, err)
               /\ UNCHANGED cfServices
          ELSE /\ migratorCalls' = entered
               /\ mig' = [mig EXCEPT !.pc = "GetHostnames"]
               /\ cfServices' = CreateService(cfServices, mig.recipient)
    /\ UNCHANGED <<catalog, pluginVars, finderVars>>

\* A CreateAndConfigureServiceInstance that configures the instance whether
\* or not its hostnames were obtained.
MigGetHostnamesErrorDropped(failed) ==
    /\ mig.pc = "GetHostnames"
    /\ clientCalls' = Append(clientCalls,
                             ClientCall("GetHostnames", <<mig.recipient>>, failed))
    /\ mig' = [mig EXCEPT !.pc = "UpdateServiceConfig"]
    /\ UNCHANGED <<catalog, pluginVars, finderVars, migratorCalls, cfServices>>

MigGetHostnames(failed) ==
    /\ mig.pc = "GetHostnames"
    /\ clientCalls' = Append(clientCalls,
                             ClientCall("GetHostnames", <<mig.recipient>>, failed))
    /\ mig' = IF failed
              THEN [mig EXCEPT !.pc = "DeleteServiceInstance",
                       !.err = <<"Error obtaining hostname for new service instance">>]
              ELSE [mig EXCEPT !.pc = "UpdateServiceConfig"]
    /\ UNCHANGED <<catalog, pluginVars, finderVars, migratorCalls, cfServices>>

\* GetHostnames failed: the new instance is deleted, the delete's result is
\* dropped, and the hostname error is returned.
MigDeleteServiceInstance(failed) ==
    /\ mig.pc = "DeleteServiceInstance"
    /\ clientCalls' = Append(clientCalls,
           ClientCall("DeleteServiceInstance", <<mig.recipient>>, failed))
    /\ cfServices' = IF failed THEN cfServices
                     ELSE DeleteService(cfServices, mig.recipient)
    /\ migratorCalls' = Return(migratorCalls, mig.err)
    /\ mig' = OnCreateError(mig, mig.err)
    /\ UNCHANGED <<catalog, pluginVars, finderVars>>

\* err = m.client.UpdateServiceConfig(...); return nil
MigUpdateServiceConfig(failed) ==
    /\ mig.pc = "UpdateServiceConfig"
    /\ clientCalls' = Append(clientCalls,
           ClientCall("UpdateServiceConfig", <<mig.recipient>>, failed))
    /\ migratorCalls' = Return(migratorCalls, Nil)
    /\ mig' = OnCreateOk(mig)
    /\ UNCHANGED <<catalog, pluginVars, finderVars, cfServices>>

\* The calls of MigrateData up to RunTask.
MigrateDataArgs(step) ==
    CASE step = "TempDir" -> <<"migrate_app_">>
      [] step = "Unpack" -> <<"tmpDir">>
      [] step = "PushApp" -> <<"tmpDir", MigrateAppName>>
      [] step = "BindDonor" -> <<MigrateAppName, mig.donor>>
      [] step = "BindRecipient" -> <<MigrateAppName, mig.recipient>>
      [] step = "StartApp" -> <<MigrateAppName>>
      [] step = "RunTask" -> <<MigrateAppName, <<"./migrate", mig.donor, mig.recipient>> >>

MigrateDataOp(step) ==
    CASE step \in {"BindDonor", "BindRecipient"} -> "BindService"
      [] OTHER -> step

MigrateDataError(step) ==
    CASE step = "TempDir" -> <<"Error creating temp directory">>
      [] step = "Unpack" -> <<"Error extracting migrate assets">>
      [] step = "PushApp" -> <<"failed to push application">>
      [] step = "BindDonor" -> <<"failed to bind-service", mig.donor>>
      [] step = "BindRecipient" -> <<"failed to bind-service", mig.recipient>>
      [] step = "StartApp" -> <<"failed to start application">>
      [] step = "RunTask" -> <<"task failed">>

MigMigrateDataStep(step, failed) ==
    /\ mig.pc = step
    /\ clientCalls' = IF step = "TempDir" THEN clientCalls
                      ELSE Append(clientCalls,
                             ClientCall(MigrateDataOp(step), MigrateDataArgs(step),
                                        failed))
    /\ LET entered == IF step = "TempDir"
                      THEN Invoke(migratorCalls, "MigrateData",
                                  <<mig.donor, mig.recipient, mig.cleanup>>)
                      ELSE migratorCalls
           err == MigrateDataError(step)
       IN IF failed /\ MigrateDataFailed(step) = "return"
          THEN /\ migratorCalls' = Return(entered, err)
               /\ mig' = OnMigrateDataError(mig, err)
          ELSE /\ migratorCalls' = entered
               /\ mig' = IF failed
                         THEN [mig EXCEPT !.pc = MigrateDataFailed(step), !.err = err]
                         ELSE [mig EXCEPT !.pc = MigrateDataNext(step)]
    /\ UNCHANGED <<catalog, pluginVars, finderVars, cfServices>>

MigDumpLogs ==
    /\ mig.pc = "DumpLogs"
    /\ clientCalls' = Append(clientCalls,
                             ClientCall("DumpLogs", <<MigrateAppName>>, FALSE))
    /\ mig' = [mig EXCEPT !.pc = "DeleteApp"]
    /\ UNCHANGED <<catalog, pluginVars, finderVars, migratorCalls, cfServices>>

\* The deferred DeleteApp; MigrateData then returns what it was returning.
MigDeleteApp(failed) ==
    /\ mig.pc = "DeleteApp"
    /\ clientCalls' = Append(clientCalls,
                             ClientCall("DeleteApp", <<MigrateAppName>>, failed))
    /\ migratorCalls' = Return(migratorCalls, mig.err)
    /\ mig' = IF mig.err = Nil THEN OnMigrateDataOk(mig)
              ELSE OnMigrateDataError(mig, mig.err)
    /\ UNCHANGED <<catalog, pluginVars, finderVars, cfServices>>

MigCleanupOnError(failed) ==
    /\ mig.pc = "CleanupOnError"
    /\ LET err == IF failed THEN <<"delete failed">> ELSE Nil IN
       /\ clientCalls' = Append(clientCalls,
              ClientCall("DeleteServiceInstance", <<mig.recipient>>, failed))
       /\ migratorCalls' = Return(Invoke(migratorCalls, "CleanupOnError",
                                         <<mig.recipient>>), err)
       /\ mig' = AfterCleanup(mig, err)
    /\ cfServices' = IF failed THEN cfServices
                     ELSE DeleteService(cfServices, mig.recipient)
    /\ UNCHANGED <<catalog, pluginVars, finderVars>>

MigRenameDonor(failed) ==
    /\ mig.pc = "RenameDonor"
    /\ clientCalls' = Append(clientCalls,
           ClientCall("RenameService", <<mig.donor, OldDonorName(mig.donor)>>, failed))
    /\ LET entered == Invoke(migratorCalls, "RenameServiceInstances",
                             <<mig.donor, mig.recipient>>)
           next == AfterRenameDonor(mig, failed)
       IN /\ mig' = next
          /\ migratorCalls' = IF next.pc = "done" THEN Return(entered, next.ret)
                              ELSE entered
    /\ cfServices' = IF failed THEN cfServices
                     ELSE RenameService(cfServices, mig.donor, OldDonorName(mig.donor))
    /\ UNCHANGED <<catalog, pluginVars, finderVars>>

MigRenameRecipient(failed) ==
    /\ mig.pc = "RenameRecipient"
    /\ clientCalls' = Append(clientCalls,
           ClientCall("RenameService", <<mig.recipient, mig.donor>>, failed))
    /\ LET err == IF failed
                  THEN <<"Error renaming service instance", mig.recipient>>
                  ELSE Nil
       IN /\ mig' = Returned(mig, err)
          /\ migratorCalls' = Return(migratorCalls, err)
    /\ cfServices' = IF failed THEN cfServices
                     ELSE RenameService(cfServices, mig.recipient, mig.donor)
    /\ UNCHANGED <<catalog, pluginVars, finderVars>>

MigrateDataSteps ==
    {"TempDir", "Unpack", "PushApp", "BindDonor", "BindRecipient", "StartApp", "RunTask"}

Init ==
    /\ catalog \in Catalogs
    /\ pluginCalls = <<>>
    /\ pluginReturns = <<>>
    /\ finder = NewFinder
    /\ finderCalls = <<>>
    /\ mig = NewMigrate(<<>>)
    /\ migratorCalls = <<>>
    /\ clientCalls = <<>>
    /\ cfServices = {}

Next ==
    \E failed \in BOOLEAN : PluginFindBindings(ServiceLabel, failed)

Spec == Init /\ [][Next]_vars

NextFinder ==
    \E failed \in BOOLEAN :
        \/ FinderListServices(failed)
        \/ FinderListPlans(failed)
        \/ FinderListInstances(failed)
        \/ FinderListBindings(failed)
        \/ \E policy \in KeyOnlyPolicies : FinderListKeys(failed, policy)
        \/ FinderGetApp(failed)
        \/ FinderGetSpace(failed)
        \/ FinderGetOrg(failed)

SpecFinder == Init /\ [][NextFinder]_vars

\* Migrate is given any argument list, in a space that may hold the
\* service instance named db.
InitMigrate ==
    /\ catalog = [services |-> <<>>, plans |-> <<>>]
    /\ pluginCalls = <<>>
    /\ pluginReturns = <<>>
    /\ finder = NewFinder
    /\ finderCalls = <<>>
    /\ \E args \in ArgLists : mig = NewMigrate(args)
    /\ migratorCalls = <<>>
    /\ clientCalls = <<>>
    /\ cfServices \in {{}, {[name |-> <<"db">>, inst |-> "old"]}}

NextMigrate ==
    \/ MigParseArgs
    \/ MigCheckServiceExists
    \/ MigDumpLogs
    \/ \E failed \in BOOLEAN :
          \/ MigCreateServiceInstance(failed)
          \/ MigGetHostnames(failed)
          \/ MigDeleteServiceInstance(failed)
          \/ MigUpdateServiceConfig(failed)
          \/ \E step \in MigrateDataSteps : MigMigrateDataStep(step, failed)
          \/ MigDeleteApp(failed)
          \/ MigCleanupOnError(failed)
          \/ MigRenameDonor(failed)
          \/ MigRenameRecipient(failed)

SpecMigrate == InitMigrate /\ [][NextMigrate]_vars

(***************************************************************************)
(* What the catalog holds, in traversal order: plans in list order, the    *)
(* instances of a plan in list order, the bindings of an instance before   *)
(* its keys, each in list order.                                           *)
(***************************************************************************)
InstanceEntries(p, i, inst) ==
    [b \in 1..inst.nb |->
        [type |-> "AppBinding", name |-> AppName(p, i, b), p |-> p, i |-> i]]
    \o
    [k \in 1..inst.nk |->
        [type |-> "ServiceKeyBinding", name |-> KeyName(p, i, k), p |-> p, i |-> i]]

RECURSIVE PlanEntries(_, _, _)
PlanEntries(plan, p, i) ==
    IF i > Len(plan) THEN <<>>
    ELSE InstanceEntries(p, i, plan[i]) \o PlanEntries(plan, p, i + 1)

RECURSIVE PlansEntries(_, _)
PlansEntries(plans, p) ==
    IF p > Len(plans) THEN <<>>
    ELSE PlanEntries(plans[p], p, 1) \o PlansEntries(plans, p + 1)

Traversal == PlansEntries(catalog.plans, 1)

TraversalView == [k \in 1..Len(Traversal) |->
                    [type |-> Traversal[k].type, name |-> Traversal[k].name]]

InstancePositions ==
    UNION {{<<p, i>> : i \in 1..Len(catalog.plans[p])} : p \in 1..Len(catalog.plans)}

InstanceAt(pos) == catalog.plans[pos[1]][pos[2]]

\* Every instance that has keys also has a binding.
KeysHaveBindings == \A pos \in InstancePositions :
                        InstanceAt(pos).nk > 0 => InstanceAt(pos).nb > 0

\* There are instances, and each has keys and no binding.
KeyOnlyCatalog ==
    /\ InstancePositions # {}
    /\ \A pos \in InstancePositions :
          InstanceAt(pos).nb = 0 /\ InstanceAt(pos).nk > 0

RECURSIVE IsSubseq(_, _)
IsSubseq(s, t) ==
    IF s = <<>> THEN TRUE
    ELSE IF t = <<>> THEN FALSE
    ELSE IF Head(s) = Head(t) THEN IsSubseq(Tail(s), Tail(t))
    ELSE IsSubseq(s, Tail(t))

Count(calls, op) == Cardinality({k \in 1..Len(calls) : calls[k].op = op})

CountArg(calls, op, arg) ==
    Cardinality({k \in 1..Len(calls) : calls[k].op = op /\ calls[k].arg = arg})

CountAt(calls, op, at) ==
    Cardinality({k \in 1..Len(calls) : calls[k].op = op /\ calls[k].at = at})

AnyFailed(calls) == \E k \in 1..Len(calls) : calls[k].failed

(***************************************************************************)
(* plugin FindBindings: the records of a plugin ServiceBinding.            *)
(***************************************************************************)
PluginRuns == 1..Len(pluginReturns)

PluginRunCalls(n) == SelectSeq(pluginCalls, LAMBDA c : c.run = n)

\* A ServiceBinding names an app or a key.
PluginView(r) ==
    IF r.Key # Nil THEN [type |-> "ServiceKeyBinding", name |-> r.Key]
    ELSE [type |-> "AppBinding", name |-> r.App]

\* A ServiceBinding has the fields App, Key, Org and Space: it names no
\* service instance.
PluginInstanceGuid(r) == Nil

PluginViews(n) ==
    [k \in 1..Len(pluginReturns[n].bindings) |->
        PluginView(pluginReturns[n].bindings[k])]

\* C1: the records FindBindings returns follow the catalog in traversal
\* order: plan order, instance order within a plan, an instance's
\* AppBinding records (binding order) before its ServiceKeyBinding records
\* (key order).
C1_PluginRecordsInTraversalOrder ==
    \A n \in PluginRuns : IsSubseq(PluginViews(n), TraversalView)

\* C2: when every instance with keys also has a binding, FindBindings
\* returns exactly one AppBinding record per binding, named after the app,
\* exactly one ServiceKeyBinding record per key, named after the key, and
\* nothing else, each record carrying its instance.
C2_PluginOneRecordPerBindingAndKey ==
    \A n \in PluginRuns :
        (KeysHaveBindings /\ ~AnyFailed(PluginRunCalls(n))) =>
            /\ Len(pluginReturns[n].bindings) = Len(Traversal)
            /\ {PluginViews(n)[k] : k \in 1..Len(PluginViews(n))}
                 = {TraversalView[k] : k \in 1..Len(TraversalView)}
            /\ \A k \in 1..Len(pluginReturns[n].bindings) :
                  \E e \in 1..Len(Traversal) :
                      /\ PluginViews(n)[k] = TraversalView[e]
                      /\ PluginInstanceGuid(pluginReturns[n].bindings[k])
                           = InstanceGuid(Traversal[e].p, Traversal[e].i)

\* C3: a failed catalog call ends the traversal at that call and FindBindings
\* returns an error and no record.
C3_PluginFailFast ==
    \A n \in PluginRuns :
        LET calls == PluginRunCalls(n) IN
        \A k \in 1..Len(calls) :
            calls[k].failed =>
                /\ k = Len(calls)
                /\ pluginReturns[n].err # Nil
                /\ pluginReturns[n].bindings = <<>>

\* C4: a successful FindBindings issues one service list call, one plan list
\* call, one instance list call per plan, and one binding list call and one
\* key list call per instance.
C4_PluginOneListCallPerParent ==
    \A n \in PluginRuns :
        LET calls == PluginRunCalls(n) IN
        (catalog.services # <<>> /\ ~AnyFailed(calls)
            /\ pluginReturns[n].err = Nil) =>
            /\ Count(calls, "ListServicesByQuery") = 1
            /\ Count(calls, "ListServicePlansByQuery") = 1
            /\ \A p \in 1..Len(catalog.plans) :
                  CountArg(calls, "ListServiceInstancesByQuery",
                           [q |-> << <<"service_plan_guid", PlanGuid(p)>> >>]) = 1
            /\ \A pos \in InstancePositions :
                  LET arg == [q |-> << <<"service_instance_guid",
                                         InstanceGuid(pos[1], pos[2])>> >>] IN
                  /\ CountArg(calls, "ListServiceBindingsByQuery", arg) = 1
                  /\ CountArg(calls, "ListServiceKeysByQuery", arg) = 1

\* C6: every record returned is a record of one instance of the catalog and
\* carries the org name and the space name resolved from that instance's
\* first binding.
C6_PluginRecordsCarryInstanceOrgSpace ==
    \A n \in PluginRuns :
        \A k \in 1..Len(pluginReturns[n].bindings) :
            LET r == pluginReturns[n].bindings[k] IN
            \E e \in 1..Len(Traversal) :
                LET t == Traversal[e] IN
                /\ PluginView(r) = TraversalView[e]
                /\ InstanceAt(<<t.p, t.i>>).nb > 0 =>
                      /\ r.Org = OrgName(t.p, t.i)
                      /\ r.Space = SpaceName(t.p, t.i)

\* C7: when no service class matches the label, FindBindings returns no
\* record and no error, and issues no call beyond the service list call.
C7_PluginNoServiceNoRecords ==
    \A n \in PluginRuns :
        LET calls == PluginRunCalls(n) IN
        (catalog.services = <<>> /\ ~AnyFailed(calls)) =>
            /\ pluginReturns[n].bindings = <<>>
            /\ pluginReturns[n].err = Nil
            /\ \A k \in 1..Len(calls) : calls[k].op = "ListServicesByQuery"

C10_PluginRepeatable ==
    \A m, n \in PluginRuns :
        (\A k \in 1..Len(PluginRunCalls(m)) :
            PluginRunCalls(m)[k].failed = PluginRunCalls(n)[k].failed) =>
            pluginReturns[m] = pluginReturns[n]

\* Two invocations have returned, the catalog holding bindings and keys.
C10_Witness ==
    /\ Len(pluginReturns) >= 2
    /\ PluginRunCalls(1)[1].failed = PluginRunCalls(2)[1].failed
    /\ Len(Traversal) >= 2

\* The field a list operation filters on.
QueryField(op) ==
    CASE op = "ListServicesByQuery" -> "label"
      [] op = "ListServicePlansByQuery" -> "service_guid"
      [] op = "ListServiceInstancesByQuery" -> "service_plan_guid"
      [] op = "ListServiceBindingsByQuery" -> "service_instance_guid"
      [] op = "ListServiceKeysByQuery" -> "service_instance_guid"

\* The identifiers of the entities a list operation can be asked about.
QueryParents(op) ==
    CASE op = "ListServicesByQuery" -> {ServiceLabel}
      [] op = "ListServicePlansByQuery" ->
            {catalog.services[k] : k \in 1..Len(catalog.services)}
      [] op = "ListServiceInstancesByQuery" ->
            {PlanGuid(p) : p \in 1..Len(catalog.plans)}
      [] op \in {"ListServiceBindingsByQuery", "ListServiceKeysByQuery"} ->
            {InstanceGuid(pos[1], pos[2]) : pos \in InstancePositions}

ListOps ==
    {"ListServicesByQuery", "ListServicePlansByQuery", "ListServiceInstancesByQuery",
     "ListServiceBindingsByQuery", "ListServiceKeysByQuery"}

C14_PluginErrorNamesLevelAndParent ==
    \A n \in PluginRuns :
        LET calls == PluginRunCalls(n) IN
        \A k \in 1..Len(calls) :
            calls[k].failed =>
                /\ pluginReturns[n].err # Nil
                /\ pluginReturns[n].err.level = calls[k].op
                /\ pluginReturns[n].err.parent = calls[k].arg.q[1][2]

(***************************************************************************)
(* The finder of finder_test.go.                                           *)
(***************************************************************************)
FinderDone == finder.pc = "done"

FinderViews ==
    [k \in 1..Len(finder.out) |->
        [type |-> finder.out[k].type, name |-> finder.out[k].name]]

SomePlanEmpty == \E p \in 1..Len(catalog.plans) : catalog.plans[p] = <<>>

\* C9: a plan without instances contributes no record, does not make the
\* traversal fail and does not end it: when no catalog call fails, the
\* instances of every plan are listed, once, and the records of the other
\* plans are returned.
C9_FinderEmptyPlanSkipped ==
    (FinderDone /\ SomePlanEmpty /\ KeysHaveBindings /\ ~AnyFailed(finderCalls)) =>
        /\ finder.err = Nil
        /\ \A p \in 1..Len(catalog.plans) :
              CountArg(finderCalls, "ListServiceInstancesByQuery",
                       Query("service_plan_guid", PlanGuid(p))) = 1
        /\ FinderViews = TraversalView

\* A traversal has returned the records of a plan that follows a plan
\* without instances.
C9_Witness ==
    /\ FinderDone
    /\ finder.err = Nil
    /\ Len(catalog.plans) >= 2
    /\ catalog.plans[1] = <<>>
    /\ catalog.plans[2] # <<>>
    /\ KeysHaveBindings
    /\ Len(finder.out) >= 2
    /\ finder.out[1].serviceInstanceGuid = InstanceGuid(2, 1)

\* The instances of the catalog in traversal order.
RECURSIVE InstanceOrder(_)
InstanceOrder(p) ==
    IF p > Len(catalog.plans) THEN <<>>
    ELSE [i \in 1..Len(catalog.plans[p]) |-> <<p, i>>] \o InstanceOrder(p + 1)

FinderCallsOf(op) == SelectSeq(finderCalls, LAMBDA c : c.op = op)

\* C11: the k-th instance list call is for the k-th plan, the k-th binding
\* list call and the k-th key list call are for the k-th instance in
\* traversal order, and an instance's bindings are listed before its keys.
C11_FinderCallsTopDownInListOrder ==
    LET il == FinderCallsOf("ListServiceInstancesByQuery")
        bl == FinderCallsOf("ListServiceBindingsByQuery")
        kl == FinderCallsOf("ListServiceKeysByQuery")
        order == InstanceOrder(1)
    IN
    /\ Len(il) <= Len(catalog.plans)
    /\ \A k \in 1..Len(il) : il[k].arg = Query("service_plan_guid", PlanGuid(k))
    /\ Len(bl) <= Len(order)
    /\ \A k \in 1..Len(bl) :
          bl[k].arg = Query("service_instance_guid",
                            InstanceGuid(order[k][1], order[k][2]))
    /\ Len(kl) <= Len(bl)
    /\ \A k \in 1..Len(kl) : kl[k].arg = bl[k].arg
    /\ \A j \in 1..Len(finderCalls) :
          finderCalls[j].op = "ListServiceKeysByQuery" =>
              \E h \in 1..(j - 1) :
                  /\ finderCalls[h].op = "ListServiceBindingsByQuery"
                  /\ finderCalls[h].arg = finderCalls[j].arg

\* A traversal of two plans and three instances has returned.
C11_Witness ==
    /\ FinderDone
    /\ finder.err = Nil
    /\ Len(FinderCallsOf("ListServiceInstancesByQuery")) >= 2
    /\ Len(FinderCallsOf("ListServiceBindingsByQuery")) >= 3
    /\ Len(FinderCallsOf("ListServiceKeysByQuery")) >= 3

\* The bound instances of the catalog in traversal order.
BoundInstanceOrder ==
    SelectSeq(InstanceOrder(1), LAMBDA pos : InstanceAt(pos).nb > 0)

MigrateDone == mig.pc = "done"

\* The calls of Migrate on the Migrator, in order, by method.
MigratorCallsOf(ops) == SelectSeq(migratorCalls, LAMBDA c : c.op \in ops)

ClientCallsOf(ops) == SelectSeq(clientCalls, LAMBDA c : c.op \in ops)

IsPrefix(s, t) == Len(s) <= Len(t) /\ \A k \in 1..Len(s) : s[k] = t[k]

MigrateSteps ==
    <<"CheckServiceExists", "CreateAndConfigureServiceInstance", "MigrateData",
      "RenameServiceInstances">>

\* Some call of the method has returned the given kind of result.
MigratorReturned(op, ok) ==
    \E k \in 1..Len(migratorCalls) :
        /\ migratorCalls[k].op = op
        /\ migratorCalls[k].returned
        /\ (migratorCalls[k].err = Nil) = ok

\* C15: Migrate calls CheckServiceExists, CreateAndConfigureServiceInstance,
\* MigrateData and RenameServiceInstances in that order, each at most once
\* and each only after the earlier ones returned without error; after a
\* failed step RenameServiceInstances is never called.
C15_MigrateStepsLinear ==
    LET steps == MigratorCallsOf({MigrateSteps[k] : k \in 1..4}) IN
    /\ IsPrefix([k \in 1..Len(steps) |-> steps[k].op], MigrateSteps)
    /\ \A k \in 1..Len(steps) : \A h \in 1..(k - 1) :
          steps[h].returned /\ steps[h].err = Nil
    /\ (\E k \in 1..Len(migratorCalls) :
           /\ migratorCalls[k].op \in {MigrateSteps[h] : h \in 1..3}
           /\ migratorCalls[k].returned
           /\ migratorCalls[k].err # Nil)
       => MigratorCallsOf({"RenameServiceInstances"}) = <<>>

\* Migrate has returned after MigrateData failed.
C15_Witness ==
    /\ MigrateDone
    /\ MigratorReturned("CheckServiceExists", TRUE)
    /\ MigratorReturned("CreateAndConfigureServiceInstance", TRUE)
    /\ MigratorReturned("MigrateData", FALSE)

CleanupCalls == MigratorCallsOf({"CleanupOnError"})

CleanupDue ==
    /\ ~NoCleanup(mig.args)
    /\ \/ MigratorReturned("CreateAndConfigureServiceInstance", FALSE)
       \/ MigratorReturned("MigrateData", FALSE)

\* C16: when Migrate has returned, CleanupOnError has been called exactly
\* once, with the source name followed by -new, if cleanup is enabled and
\* CreateAndConfigureServiceInstance or MigrateData returned an error, and
\* has not been called at all otherwise.
C16_CleanupExactlyWhenDue ==
    /\ Len(CleanupCalls) <= 1
    /\ CleanupCalls # <<>> =>
          /\ CleanupDue
          /\ CleanupCalls[1].args = << <<Positionals(mig.args)[1], "-new">> >>
    /\ (MigrateDone /\ CleanupDue) => Len(CleanupCalls) = 1

\* Migrate has returned after cleaning up behind a failed creation.
C16_Witness ==
    /\ MigrateDone
    /\ MigratorReturned("CreateAndConfigureServiceInstance", FALSE)
    /\ Len(CleanupCalls) = 1
    /\ CleanupCalls[1].args = << <<"db", "-new">> >>

\* C17: under --no-cleanup, once CreateAndConfigureServiceInstance or
\* MigrateData has returned an error, the client has been sent no DeleteApp
\* and no DeleteServiceInstance.
C17_NoCleanupDeletesNothing ==
    (/\ NoCleanup(mig.args)
     /\ \/ MigratorReturned("CreateAndConfigureServiceInstance", FALSE)
        \/ MigratorReturned("MigrateData", FALSE))
    => ClientCallsOf({"DeleteApp", "DeleteServiceInstance"}) = <<>>

\* C18: Migrate returns nil exactly when the arguments parsed and
\* CheckServiceExists, CreateAndConfigureServiceInstance, MigrateData and
\* RenameServiceInstances all returned nil; a run that called CleanupOnError
\* returns the error of the failed step whatever CleanupOnError returned.
C18_MigrateNilIffAllSteps ==
    MigrateDone =>
        /\ (mig.ret = Nil) <=>
              /\ ~ParseError(mig.args)
              /\ Leftover(mig.args) = <<>>
              /\ \A k \in 1..4 : MigratorReturned(MigrateSteps[k], TRUE)
        /\ CleanupCalls # <<>> =>
              /\ mig.ret # Nil
              /\ mig.ret[1] \in {"error creating service instance",
                                 "error migrating data"}

\* Migrate has returned an error after a CleanupOnError that succeeded.
C18_Witness ==
    /\ MigrateDone
    /\ mig.ret # Nil
    /\ Len(CleanupCalls) = 1
    /\ CleanupCalls[1].returned
    /\ CleanupCalls[1].err = Nil

\* The remote steps of MigrateData for a donor and a recipient.
MigrateDataCalls(donor, recipient) ==
    << [op |-> "Unpack", args |-> <<"tmpDir">>],
       [op |-> "PushApp", args |-> <<"tmpDir", MigrateAppName>>],
       [op |-> "BindService", args |-> <<MigrateAppName, donor>>],
       [op |-> "BindService", args |-> <<MigrateAppName, recipient>>],
       [op |-> "StartApp", args |-> <<MigrateAppName>>],
       [op |-> "RunTask",
        args |-> <<MigrateAppName, <<"./migrate", donor, recipient>> >>] >>

\* C19: MigrateData issues Unpack, PushApp, BindService(app, donor),
\* BindService(app, recipient), StartApp and RunTask in that order, each
\* only after the one before it succeeded.
C19_MigrateDataStepsInOrder ==
    LET steps == ClientCallsOf({"Unpack", "PushApp", "BindService", "StartApp",
                                "RunTask"})
    IN
    /\ IsPrefix([k \in 1..Len(steps) |-> [op |-> steps[k].op, args |-> steps[k].args]],
                MigrateDataCalls(<<"db">>, <<"db", "-new">>))
    /\ \A k \in 1..Len(steps) : \A h \in 1..(k - 1) : ~steps[h].failed

\* MigrateData has run its task.
C19_Witness ==
    /\ Len(ClientCallsOf({"BindService"})) = 2
    /\ Len(ClientCallsOf({"RunTask"})) = 1
    /\ MigratorReturned("MigrateData", TRUE)

Renames == ClientCallsOf({"RenameService"})

\* C20: RenameServiceInstances renames the donor to its name followed by
\* -old and then, only if that succeeded, the recipient to the donor's
\* name; after both succeeded the donor's name designates the former
\* recipient and the -old name the former donor.
C20_RenameDonorThenRecipient ==
    /\ IsPrefix([k \in 1..Len(Renames) |-> Renames[k].args],
                << <<mig.donor, <<"db", "-old">> >>, <<mig.recipient, mig.donor>> >>)
    /\ Len(Renames) = 2 => ~Renames[1].failed
    /\ (Renames # <<>> /\ Renames[1].failed) =>
          (MigrateDone /\ mig.ret # Nil)
    /\ (Len(Renames) = 2 /\ ~Renames[2].failed) =>
          /\ {s.inst : s \in {t \in cfServices : t.name = <<"db">>}} = {"new"}
          /\ {s.inst : s \in {t \in cfServices : t.name = <<"db", "-old">>}} = {"old"}
          /\ ~ServiceExists(cfServices, <<"db", "-new">>)

\* Both renames have succeeded.
C20_Witness ==
    /\ MigrateDone
    /\ mig.ret = Nil
    /\ Len(Renames) = 2
    /\ [name |-> <<"db">>, inst |-> "new"] \in cfServices
    /\ [name |-> <<"db", "-old">>, inst |-> "old"] \in cfServices

\* Some call of the operation on the client had the given outcome.
ClientCalled(op, ok) ==
    \E k \in 1..Len(clientCalls) : clientCalls[k].op = op /\ clientCalls[k].failed = ~ok

MigratorHasReturned(op) ==
    \E k \in 1..Len(migratorCalls) : migratorCalls[k].op = op /\ migratorCalls[k].returned

MigrateDataOps ==
    {"Unpack", "PushApp", "BindService", "StartApp", "RunTask", "DumpLogs", "DeleteApp"}

\* C21: MigrateData issues DeleteApp for the migration app exactly once on
\* every return after PushApp succeeded and never when Unpack or PushApp
\* failed; no call of MigrateData follows it; DumpLogs is issued exactly
\* when RunTask failed, and before the DeleteApp.
C21_DeleteAppOnceAfterPush ==
    LET dels == ClientCallsOf({"DeleteApp"})
        dumps == ClientCallsOf({"DumpLogs"})
    IN
    /\ Len(dels) <= 1
    /\ \A k \in 1..Len(dels) : dels[k].args = <<MigrateAppName>>
    /\ dels # <<>> => ClientCalled("PushApp", TRUE)
    /\ MigratorHasReturned("MigrateData") =>
          /\ (Len(dels) = 1) <=> ClientCalled("PushApp", TRUE)
          /\ (Len(dumps) = 1) <=> ClientCalled("RunTask", FALSE)
    /\ \A j \in 1..Len(clientCalls) : \A k \in (j + 1)..Len(clientCalls) :
          clientCalls[j].op = "DeleteApp" => clientCalls[k].op \notin MigrateDataOps
    /\ Len(dumps) <= 1
    /\ dumps # <<>> => ClientCalled("RunTask", FALSE)

\* MigrateData has returned after a failed task: logs dumped, app deleted.
C21_Witness ==
    /\ MigratorReturned("MigrateData", FALSE)
    /\ ClientCalled("RunTask", FALSE)
    /\ Len(ClientCallsOf({"DumpLogs"})) = 1
    /\ Len(ClientCallsOf({"DeleteApp"})) = 1
    /\ clientCalls[Len(clientCalls)].op = "DeleteApp"

\* C22: when CreateAndConfigureServiceInstance has returned and Migrate has
\* not yet acted on it, a failed CreateServiceInstance has been followed by
\* no GetHostnames, UpdateServiceConfig or DeleteServiceInstance call and a
\* failed GetHostnames by exactly one DeleteServiceInstance of the new
\* instance and no UpdateServiceConfig; in both cases the method returned
\* an error.
C22_CreateFailurePaths ==
    (MigratorHasReturned("CreateAndConfigureServiceInstance") /\ CleanupCalls = <<>>) =>
        LET dels == ClientCallsOf({"DeleteServiceInstance"}) IN
        /\ ClientCalled("CreateServiceInstance", FALSE) =>
              /\ ClientCallsOf({"GetHostnames", "UpdateServiceConfig"}) = <<>>
              /\ dels = <<>>
              /\ MigratorReturned("CreateAndConfigureServiceInstance", FALSE)
        /\ ClientCalled("GetHostnames", FALSE) =>
              /\ Len(dels) = 1
              /\ dels[1].args = << <<"db", "-new">> >>
              /\ ClientCallsOf({"UpdateServiceConfig"}) = <<>>
              /\ MigratorReturned("CreateAndConfigureServiceInstance", FALSE)

\* CreateAndConfigureServiceInstance has returned after GetHostnames failed.
C22_Witness ==
    /\ MigratorReturned("CreateAndConfigureServiceInstance", FALSE)
    /\ CleanupCalls = <<>>
    /\ ClientCalled("GetHostnames", FALSE)
    /\ Len(ClientCallsOf({"DeleteServiceInstance"})) = 1

\* C23: once Migrate has returned from a run that got past
\* CheckServiceExists, a service instance bears the donor's name.
C23_DonorNameStillAssigned ==
    (MigrateDone /\ MigratorReturned("CheckServiceExists", TRUE)) =>
        ServiceExists(cfServices, <<Positionals(mig.args)[1]>>)

\* C24: CreateAndConfigureServiceInstance returns nil only if
\* CreateServiceInstance, GetHostnames and UpdateServiceConfig all
\* succeeded, so MigrateData is entered only after a configuration update
\* that succeeded.
C24_CreateNilOnlyIfConfigured ==
    /\ MigratorReturned("CreateAndConfigureServiceInstance", TRUE) =>
          /\ ClientCalled("CreateServiceInstance", TRUE)
          /\ ClientCalled("GetHostnames", TRUE)
          /\ ClientCalled("UpdateServiceConfig", TRUE)
    /\ MigratorCallsOf({"MigrateData"}) # <<>> => ClientCalled("UpdateServiceConfig", TRUE)

\* C25: in one Migrate run DeleteServiceInstance is issued at most once for
\* the recipient, and only after a CreateServiceInstance call for it.
C25_RecipientDeletedAtMostOnce ==
    LET recipient == <<"db", "-new">>
        dels == SelectSeq(clientCalls, LAMBDA c :
                    c.op = "DeleteServiceInstance" /\ c.args = <<recipient>>)
    IN
    /\ Len(dels) <= 1
    /\ \A j \in 1..Len(clientCalls) :
          (clientCalls[j].op = "DeleteServiceInstance"
             /\ clientCalls[j].args = <<recipient>>) =>
              \E h \in 1..(j - 1) :
                  /\ clientCalls[h].op = "CreateServiceInstance"
                  /\ clientCalls[h].args[2] = recipient

====
